---- MODULE Spec2Model ----
(***************************************************************************)
(* State-machine model of the ToDo REST service: the Express router        *)
(* (routes/ToDoRoutes.js), the validation middlewares                      *)
(* (middlewares/validation.js), ToDoController, MongoConnection, the ToDo  *)
(* class and the errorHandler middleware.  Each request is a process that  *)
(* runs its route's middleware chain; a controller method is split at its  *)
(* awaits (connect, list, insert, update, delete), where other requests    *)
(* interleave.  The collection lives in the store and is shared.           *)
(***************************************************************************)
EXTENDS Integers, Sequences, FiniteSets, TLC

(* ------------------------------ bounds --------------------------------- *)

\* Requests that may be in flight at the same time.
NumSlots == 2

\* Requests received over a whole run of concurrent requests.
MaxRequests == 4

\* Requests received over a whole run of requests sent one after another.
MaxSerialRequests == 3

\* Requests received over a whole run against a store that may fail.
MaxFaultRequests == 3

Slots == 1..NumSlots

(* --------------------------- JavaScript values -------------------------- *)
\* A value is [t: its typeof-like tag, s: the characters of a string,
\* n: the number (booleans: 1 for true, 0 for false)].

Undefined == [t |-> "undefined", s |-> <<>>, n |-> 0]

Null == [t |-> "null", s |-> <<>>, n |-> 0]

Str(chars) == [t |-> "string", s |-> chars, n |-> 0]

Num(k) == [t |-> "number", s |-> <<>>, n |-> k]

NaN == [t |-> "number", s |-> <<"NaN">>, n |-> 0]

Bool(b) == [t |-> "boolean", s |-> <<>>, n |-> IF b THEN 1 ELSE 0]

ObjectId(k) == [t |-> "objectid", s |-> <<>>, n |-> k]

\* typeof v
TypeOf(v) == IF v.t \in {"null", "objectid"} THEN "object" ELSE v.t

\* isNaN(v) for a number v
IsNaN(v) == v.t = "number" /\ v.s = <<"NaN">>

\* A presence test (v !== undefined) where the code tests truthiness.
IsDefined(v) == v.t # "undefined"

\* ToBoolean(v): what `!v` and `v && ...` test
Truthy(v) ==
    CASE v.t = "string" -> v.s # <<>>
      [] v.t = "number" -> ~IsNaN(v) /\ v.n # 0
      [] v.t = "boolean" -> v.n = 1
      [] v.t = "objectid" -> TRUE
      [] OTHER -> FALSE

DigitChars == <<"0", "1", "2", "3", "4", "5", "6", "7", "8", "9">>

IsDigit(c) == \E d \in 1..10 : DigitChars[d] = c

DigitVal(c) == (CHOOSE d \in 1..10 : DigitChars[d] = c) - 1

\* The longest prefix of decimal digits of a character sequence.
RECURSIVE DigitsPrefix(_)
DigitsPrefix(chars) ==
    IF chars = <<>> \/ ~IsDigit(Head(chars))
    THEN <<>>
    ELSE <<Head(chars)>> \o DigitsPrefix(Tail(chars))

\* The number a sequence of decimal digits denotes.
RECURSIVE DigitsValue(_)
DigitsValue(digits) ==
    IF digits = <<>>
    THEN 0
    ELSE 10 * DigitsValue(SubSeq(digits, 1, Len(digits) - 1))
         + DigitVal(digits[Len(digits)])

\* String(k) for an integer k >= 0.
RECURSIVE NumToChars(_)
NumToChars(k) ==
    IF k < 10
    THEN <<DigitChars[k + 1]>>
    ELSE NumToChars(k \div 10) \o <<DigitChars[(k % 10) + 1]>>

\* ToString(v), as parseInt applies it to its argument.
ToChars(v) ==
    CASE v.t = "string" -> v.s
      [] v.t = "number" -> IF IsNaN(v) THEN <<"N", "a", "N">> ELSE NumToChars(v.n)
      [] OTHER -> <<"o">>

\* parseInt(v): the digits the text starts with, NaN when it starts with none.
\* (Path texts here are built of digits and letters: no sign, blank or 0x.)
ParseInt(v) ==
    LET digits == DigitsPrefix(ToChars(v))
    IN  IF digits = <<>> THEN NaN ELSE Num(DigitsValue(digits))

(* ------------------------------- objects -------------------------------- *)
\* A plain object is a function from its own enumerable keys to values.

EmptyObject == [k \in {} |-> Undefined]

\* obj.key, undefined when the object has no such property
Get(obj, key) == IF key \in DOMAIN obj THEN obj[key] ELSE Undefined

\* ObjectId.toJSON(): the hexadecimal text of the identifier
JsonValue(v) == IF v.t = "objectid" THEN Str(<<"#">> \o NumToChars(v.n)) ELSE v

\* JSON.stringify(obj) of a plain object: its own enumerable properties,
\* those holding undefined dropped.
JsonObject(obj) ==
    LET keys == {k \in DOMAIN obj : obj[k].t # "undefined"}
    IN  [k \in keys |-> JsonValue(obj[k])]

\* new ToDo(id, title, completed): three private fields and no own property.
ToDo(id, title, completed) ==
    [private |-> [id |-> id, title |-> title, completed |-> completed],
     own |-> EmptyObject]

\* The accessors `get id()`, `get title()`, `get completed()`.
ToDoGet(todo, field) == todo.private[field]

NoToDo == ToDo(Undefined, Undefined, Undefined)

(* ------------------------------ responses ------------------------------- *)
\* A response is [status, by: who sent it, kind: "object" | "array" | "empty",
\* obj: the JSON object of the body, items: the JSON array of the body].

JsonResponse(status, by, obj) ==
    [status |-> status, by |-> by, kind |-> "object", obj |-> JsonObject(obj),
     items |-> <<>>]

ArrayResponse(status, by, docs) ==
    [status |-> status, by |-> by, kind |-> "array", obj |-> EmptyObject,
     items |-> [i \in 1..Len(docs) |-> JsonObject(docs[i])]]

EmptyResponse(status, by) ==
    [status |-> status, by |-> by, kind |-> "empty", obj |-> EmptyObject,
     items |-> <<>>]

\* res.json(value) where value may be undefined: JSON.stringify(undefined)
\* is undefined and the response is sent with no body.
ResJson(status, by, found, obj) ==
    IF found THEN JsonResponse(status, by, obj) ELSE EmptyResponse(status, by)

ErrorBody(message) == [k \in {"error"} |-> Str(<<message>>)]

(* ------------------------------- errors --------------------------------- *)

DuplicateKeyError == [name |-> "MongoServerError", code |-> 11000]

EmptySetError == [name |-> "MongoServerError", code |-> 9]

\* No error: the call returned.
NoError == [name |-> "", code |-> 0]

\* What connect or a store primitive throws when the store cannot serve it:
\* the server is out of reach, or it refuses the command.
StoreErrors ==
    {[name |-> "MongoNetworkError", code |-> 0],
     [name |-> "MongoServerError", code |-> 13]}

\* An error handler with no case for the duplicate-key code.
errorHandlerNoDuplicateCase(err) ==
    JsonResponse(500, "errorHandler", ErrorBody("Error interno del servidor"))

\* errorHandler(err, req, res, next)
errorHandler(err) ==
    IF err.name = "ValidationError"
    THEN JsonResponse(400, "errorHandler",
                      [k \in {"error", "details"} |->
                          IF k = "error" THEN Str(<<"Error de validacion">>)
                          ELSE Str(<<"message">>)])
    ELSE IF err.name = "CastError"
    THEN JsonResponse(400, "errorHandler", ErrorBody("ID invalido"))
    ELSE IF err.code = 11000
    THEN JsonResponse(409, "errorHandler", ErrorBody("Duplicado detectado"))
    ELSE JsonResponse(500, "errorHandler", ErrorBody("Error interno del servidor"))

(* --------------------------- the store (MongoDB) ------------------------ *)
\* The collection is the sequence of its documents in natural order.  A
\* document is a plain object with the keys _id, id, title and completed.

Document(oid, id, title, completed) ==
    [k \in {"_id", "id", "title", "completed"} |->
        CASE k = "_id" -> ObjectId(oid)
          [] k = "id" -> id
          [] k = "title" -> title
          [] OTHER -> completed]

\* The positions of the documents the filter { id: id } matches.
Matches(coll, id) == {i \in 1..Len(coll) : coll[i]["id"] = id}

Min(S) == CHOOSE x \in S : \A y \in S : x <= y

Max(S) == CHOOSE x \in S : \A y \in S : x >= y

RemoveAt(seq, i) == SubSeq(seq, 1, i - 1) \o SubSeq(seq, i + 1, Len(seq))

\* collection.find({}).toArray()
FindAll(coll) == coll

\* collection.insertOne(doc) under a unique index on id, when there is one:
\* the error thrown, or the collection with the document added.
InsertOne(coll, unique, oid, id, title, completed) ==
    IF unique /\ Matches(coll, id) # {}
    THEN [ok |-> FALSE, error |-> DuplicateKeyError, coll |-> coll]
    ELSE [ok |-> TRUE, error |-> DuplicateKeyError,
          coll |-> Append(coll, Document(oid, id, title, completed))]

\* { $set: updateData } applied to one document.
ApplySet(doc, updateData) ==
    [k \in DOMAIN doc |-> IF k \in DOMAIN updateData THEN updateData[k] ELSE doc[k]]

\* An updateOne with { upsert: true }: with no match it stores a new
\* document made of the filter and the patch, and still counts no match.
UpdateOneUpsert(coll, id, updateData) ==
    IF Matches(coll, id) = {}
    THEN [matchedCount |-> 0, modifiedCount |-> 0,
          coll |-> Append(coll, Document(ObjectId(Len(coll) + 1), id,
                                         Get(updateData, "title"),
                                         Get(updateData, "completed")))]
    ELSE LET i == Min(Matches(coll, id))
             patched == ApplySet(coll[i], updateData)
         IN  [matchedCount |-> 1,
              modifiedCount |-> IF patched = coll[i] THEN 0 ELSE 1,
              coll |-> [coll EXCEPT ![i] = patched]]

\* collection.updateOne({ id: id }, { $set: updateData }): the first match is
\* patched; modifiedCount counts it only when the patch changed it.
UpdateOne(coll, id, updateData) ==
    IF Matches(coll, id) = {}
    THEN [matchedCount |-> 0, modifiedCount |-> 0, coll |-> coll]
    ELSE LET i == Min(Matches(coll, id))
             patched == ApplySet(coll[i], updateData)
         IN  [matchedCount |-> 1,
              modifiedCount |-> IF patched = coll[i] THEN 0 ELSE 1,
              coll |-> [coll EXCEPT ![i] = patched]]

\* collection.deleteOne({ id: id }): the first match is removed.
DeleteOne(coll, id) ==
    IF Matches(coll, id) = {}
    THEN [deletedCount |-> 0, coll |-> coll]
    ELSE [deletedCount |-> 1, coll |-> RemoveAt(coll, Min(Matches(coll, id)))]

\* todos.find(t => t.id === id): is there one, and the first one.
HasTodo(todos, id) == Matches(todos, id) # {}

FindTodo(todos, id) ==
    IF HasTodo(todos, id) THEN todos[Min(Matches(todos, id))] ELSE EmptyObject

\* A create that gives the new task the smallest id no stored task has.
NewIdFillingGaps(todos) ==
    Min({k \in 1..(Len(todos) + 1) : \A i \in 1..Len(todos) : todos[i]["id"].n # k})

\* A create that numbers the new task by the count of the tasks.
NewIdByCount(todos) == Len(todos) + 1

\* todos.length > 0 ? Math.max(...todos.map(t => t.id)) + 1 : 1
NewId(todos) ==
    IF Len(todos) > 0
    THEN Max({todos[i]["id"].n : i \in 1..Len(todos)}) + 1
    ELSE 1

(* ------------------------------ the router ------------------------------ *)

\* The handlers of each route, in the order router.METHOD registered them.
Chain(method, path) ==
    CASE method = "GET" /\ path = "/" -> <<"getAll">>
      [] method = "GET" /\ path = "/:id" -> <<"validateId", "getById">>
      [] method = "POST" /\ path = "/" -> <<"validateToDo", "create">>
      [] method = "PUT" /\ path = "/:id" -> <<"validateId", "validateToDo", "update">>
      [] method = "DELETE" /\ path = "/:id" -> <<"validateId", "delete">>

Routes ==
    {<<"GET", "/">>, <<"GET", "/:id">>, <<"POST", "/">>, <<"PUT", "/:id">>,
     <<"DELETE", "/:id">>}

Middlewares == {"validateId", "validateToDo"}

\* Where the request stands once handler number i of its chain is entered:
\* in a middleware, or in a controller method awaiting this.connect().
Enter(chain, i) == IF chain[i] \in Middlewares THEN chain[i] ELSE "connect"

\* next() called by the handler named `from`.
CallNext(chain, from) ==
    Enter(chain, (CHOOSE i \in 1..Len(chain) : chain[i] = from) + 1)

\* The controller method the route ends in.
Handler(request) == LET chain == Chain(request.method, request.path)
                    IN  chain[Len(chain)]

(* ------------------------------- inputs --------------------------------- *)

\* Texts of the :id path segment.
PathTexts == {<<"1">>, <<"2">>}

\* The parsed JSON body: it has a key only for what the request supplied.
Body(title, completed) ==
    LET keys == {k \in {"title", "completed"} :
                    (IF k = "title" THEN title ELSE completed) # Undefined}
    IN  [k \in keys |-> IF k = "title" THEN title ELSE completed]

\* Bodies of the POST requests.
PostBodies == {Body(Str(<<"a">>), Undefined), Body(Str(<<"b">>), Bool(TRUE))}

\* Bodies of the PUT requests.
PutBodies ==
    {Body(Undefined, Bool(TRUE)), Body(Str(<<"b">>), Undefined),
     Body(Undefined, Undefined)}

NoRequest == [method |-> "GET", path |-> "/", params |-> EmptyObject,
              body |-> EmptyObject]

NoLocal == [id |-> Undefined, updateData |-> EmptyObject, newToDo |-> NoToDo,
            matchedCount |-> 0, modifiedCount |-> 0, deletedCount |-> 0]

(* ------------------------------- state ---------------------------------- *)

VARIABLES
    collection,   \* the documents of the collection, in natural order
    nextOid,      \* the next _id the driver generates
    uniqueIndex,  \* does the collection carry a unique index on id
    pc,           \* per slot: where its request stands
    req,          \* per slot: the request (method, path, params, body)
    local,        \* per slot: the controller method's local variables
    sent,         \* per slot: the responses sent for its request, in order
    calls,        \* per slot: the store calls its request has issued, in order,
                  \* each with the error it threw
    issued,       \* requests received so far
    overlapped,   \* per slot: a create that was in flight along with another
    lastSeq,      \* id given by the latest of a run of creates that did not
                  \* overlap, with no delete since (0: no such create)
    retired,      \* ids of the tasks deleted so far
    gone,         \* ids a delete answered 204 for, no task stored since
    afterGone,    \* per slot: its id was in `gone` when the request arrived
    fresh,        \* tasks as created, neither updated nor deleted since
    expect        \* per slot: the fresh tasks of its id when a get arrived

vars ==
    <<collection, nextOid, uniqueIndex, pc, req, local, sent, calls, issued,
      overlapped, lastSeq, retired, gone, afterGone, fresh, expect>>

history == <<overlapped, lastSeq, retired, gone, afterGone, fresh, expect>>

InFlight(r) == pc[r] \notin {"idle", "done"}

\* The store is reached through a collection that may or may not have been
\* given a unique index on id; the service creates none.
Init ==
    /\ collection = <<>>
    /\ nextOid = 1
    /\ uniqueIndex \in BOOLEAN
    /\ pc = [r \in Slots |-> "idle"]
    /\ req = [r \in Slots |-> NoRequest]
    /\ local = [r \in Slots |-> NoLocal]
    /\ sent = [r \in Slots |-> <<>>]
    /\ calls = [r \in Slots |-> <<>>]
    /\ issued = 0
    /\ overlapped = [r \in Slots |-> FALSE]
    /\ lastSeq = 0
    /\ retired = {}
    /\ gone = {}
    /\ afterGone = [r \in Slots |-> FALSE]
    /\ fresh = {}
    /\ expect = [r \in Slots |-> {}]

(* ------------------------- receiving a request -------------------------- *)

\* The requests a client may send: a route, the text of its :id segment (for
\* a route that has one) and its JSON body (for POST and PUT).
Requests(texts, posts, puts) ==
    {[method |-> route[1], path |-> route[2],
      params |-> IF route[2] = "/:id" THEN [k \in {"id"} |-> Str(text)]
                 ELSE EmptyObject,
      body |-> body] :
        route \in Routes, text \in texts, body \in posts \cup puts \cup {EmptyObject}}

WellFormed(request, posts, puts) ==
    CASE request.method = "POST" -> request.body \in posts
      [] request.method = "PUT" -> request.body \in puts
      [] OTHER -> request.body = EmptyObject

\* The router matches a request to its route and enters the first handler.
\* Slots are interchangeable: the request takes the first free one.
ReceiveFrom(r, limit, texts, posts, puts) ==
    /\ ~InFlight(r)
    /\ \A q \in Slots : q < r => InFlight(q)
    /\ issued < limit
    /\ \E request \in Requests(texts, posts, puts) :
          LET id == ParseInt(Get(request.params, "id"))
              hasId == request.path = "/:id"
              creates == {q \in Slots \ {r} : InFlight(q) /\ req[q].method = "POST"}
          IN  /\ WellFormed(request, posts, puts)
              /\ req' = [req EXCEPT ![r] = request]
              /\ pc' = [pc EXCEPT ![r] = Enter(Chain(request.method, request.path), 1)]
              /\ overlapped' =
                    [q \in Slots |->
                        IF request.method # "POST"
                        THEN IF q = r THEN FALSE ELSE overlapped[q]
                        ELSE IF q = r THEN creates # {}
                        ELSE overlapped[q] \/ q \in creates]
              /\ afterGone' = [afterGone EXCEPT ![r] =
                                  hasId /\ ~IsNaN(id) /\ id.n \in gone]
              /\ expect' = [expect EXCEPT ![r] =
                               IF request.method = "GET" /\ hasId /\ ~IsNaN(id)
                               THEN {e \in fresh : e.id = id.n}
                               ELSE {}]
    /\ local' = [local EXCEPT ![r] = NoLocal]
    /\ sent' = [sent EXCEPT ![r] = <<>>]
    /\ calls' = [calls EXCEPT ![r] = <<>>]
    /\ issued' = issued + 1
    /\ UNCHANGED <<collection, nextOid, uniqueIndex, lastSeq, retired, gone, fresh>>

Receive(r) == ReceiveFrom(r, MaxRequests, PathTexts, PostBodies, PutBodies)

(* ----------------------------- validation ------------------------------- *)

\* validateId: what it answers (status 0: nothing, it calls next()).
ValidateIdStatus(params) == IF IsNaN(ParseInt(Get(params, "id"))) THEN 400 ELSE 0

\* A validateId whose 400 branch lacks its `return` and goes on to next().
ValidateIdNoReturn(r) ==
    /\ pc[r] = "validateId"
    /\ LET id == ParseInt(Get(req[r].params, "id"))
           chain == Chain(req[r].method, req[r].path)
       IN  /\ sent' = IF ValidateIdStatus(req[r].params) = 400
                      THEN [sent EXCEPT ![r] = Append(@,
                               JsonResponse(400, "validateId",
                                   ErrorBody("El ID debe ser un numero valido")))]
                      ELSE sent
           /\ req' = [req EXCEPT ![r].params = [k \in {"id"} |-> id]]
           /\ pc' = [pc EXCEPT ![r] = CallNext(chain, "validateId")]
    /\ UNCHANGED <<collection, nextOid, uniqueIndex, local, calls, issued, history>>

ValidateId(r) ==
    /\ pc[r] = "validateId"
    /\ LET id == ParseInt(Get(req[r].params, "id"))
           chain == Chain(req[r].method, req[r].path)
       IN  IF ValidateIdStatus(req[r].params) = 400
           THEN /\ sent' = [sent EXCEPT ![r] = Append(@,
                       JsonResponse(400, "validateId",
                                    ErrorBody("El ID debe ser un numero valido")))]
                /\ pc' = [pc EXCEPT ![r] = "done"]
                /\ req' = req
           ELSE /\ req' = [req EXCEPT ![r].params = [k \in {"id"} |-> id]]
                /\ pc' = [pc EXCEPT ![r] = CallNext(chain, "validateId")]
                /\ sent' = sent
    /\ UNCHANGED <<collection, nextOid, uniqueIndex, local, calls, issued, history>>

\* validateToDo: the message of the 400 it answers ("": none, it calls next()).
ValidateToDoError(method, body) ==
    LET title == Get(body, "title")
        completed == Get(body, "completed")
    IN  IF method = "POST" /\ ~Truthy(title)
        THEN "El campo title es requerido"
        ELSE IF Truthy(title) /\ TypeOf(title) # "string"
        THEN "El campo title debe ser una cadena de texto"
        ELSE IF completed # Undefined /\ TypeOf(completed) # "boolean"
        THEN "El campo completed debe ser un booleano"
        ELSE ""

ValidateToDo(r) ==
    /\ pc[r] = "validateToDo"
    /\ LET message == ValidateToDoError(req[r].method, req[r].body)
           chain == Chain(req[r].method, req[r].path)
       IN  IF message # ""
           THEN /\ sent' = [sent EXCEPT ![r] = Append(@,
                       JsonResponse(400, "validateToDo", ErrorBody(message)))]
                /\ pc' = [pc EXCEPT ![r] = "done"]
           ELSE /\ pc' = [pc EXCEPT ![r] = CallNext(chain, "validateToDo")]
                /\ sent' = sent
    /\ UNCHANGED <<collection, nextOid, uniqueIndex, req, local, calls, issued,
                   history>>

(* ----------------------------- controller ------------------------------- *)

Respond(r, response) ==
    /\ sent' = [sent EXCEPT ![r] = Append(@, response)]
    /\ pc' = [pc EXCEPT ![r] = "done"]

\* A call of connect or of a store primitive, and the error it throws.
Issue(r, name, err) ==
    calls' = [calls EXCEPT ![r] = Append(@, [name |-> name, error |-> err])]

Call(r, name) == Issue(r, name, NoError)

NotFound(by) == JsonResponse(404, by, ErrorBody("ToDo no encontrado"))

\* An update that sets both fields whatever the body supplies (an undefined
\* value is stored as null).
UpdateDataOfBoth(body) ==
    [k \in {"title", "completed"} |->
        IF Get(body, k) = Undefined THEN Null ELSE body[k]]

\* const updateData = {}; if (title !== undefined) ...; if (completed !== undefined) ...
UpdateData(body) ==
    LET keys == {k \in {"title", "completed"} : Get(body, k) # Undefined}
    IN  [k \in keys |-> body[k]]

\* const { title, completed = false } = req.body
CreateCompleted(body) ==
    IF Get(body, "completed") = Undefined THEN Bool(FALSE) ELSE body["completed"]

\* `await this.connect()` of every controller method, and the method's code up
\* to its first store call.
AfterConnect(r) ==
    /\ LET handler == Handler(req[r])
           id == ParseInt(Get(req[r].params, "id"))
       IN  CASE handler = "getAll" ->
                  /\ pc' = [pc EXCEPT ![r] = "getAllToDos"]
                  /\ UNCHANGED <<local, sent>>
             [] handler = "getById" ->
                  /\ pc' = [pc EXCEPT ![r] = "getAllToDos"]
                  /\ local' = [local EXCEPT ![r].id = id]
                  /\ sent' = sent
             [] handler = "create" ->
                  IF ~Truthy(Get(req[r].body, "title"))
                  THEN /\ Respond(r, JsonResponse(400, "create",
                                        ErrorBody("El titulo es requerido")))
                       /\ local' = local
                  ELSE /\ pc' = [pc EXCEPT ![r] = "getAllToDos"]
                       /\ UNCHANGED <<local, sent>>
             [] handler = "update" ->
                  /\ pc' = [pc EXCEPT ![r] = "updateToDo"]
                  /\ local' = [local EXCEPT ![r].id = id,
                                            ![r].updateData = UpdateData(req[r].body)]
                  /\ sent' = sent
             [] handler = "delete" ->
                  /\ pc' = [pc EXCEPT ![r] = "deleteToDo"]
                  /\ local' = [local EXCEPT ![r].id = id]
                  /\ sent' = sent
    /\ UNCHANGED <<collection, nextOid, uniqueIndex, req, issued, history>>

Connect(r) ==
    /\ pc[r] = "connect"
    /\ Call(r, "connect")
    /\ AfterConnect(r)

\* A connect whose error is logged and not thrown again: the method goes on.
ConnectFailsSwallowed(r) ==
    /\ pc[r] = "connect"
    /\ \E err \in StoreErrors : Issue(r, "connect", err)
    /\ AfterConnect(r)

\* connect throws: the method's catch hands the error to next(error).
ConnectFails(r) ==
    /\ pc[r] = "connect"
    /\ \E err \in StoreErrors :
          /\ Issue(r, "connect", err)
          /\ Respond(r, errorHandler(err))
    /\ UNCHANGED <<collection, nextOid, uniqueIndex, req, local, issued, history>>

StoreCalls == {"getAllToDos", "insertToDo", "updateToDo", "deleteToDo"}

\* A store primitive throws an error other than the duplicate key: it logs
\* and throws again, and the method's catch hands the error to next(error).
StoreCallFails(r) ==
    /\ pc[r] \in StoreCalls
    /\ \E err \in StoreErrors :
          /\ Issue(r, pc[r], err)
          /\ Respond(r, errorHandler(err))
    /\ UNCHANGED <<collection, nextOid, uniqueIndex, req, local, issued, history>>

\* getAll: the list, then res.json(todos).
GetAll(r) ==
    /\ pc[r] = "getAllToDos"
    /\ Handler(req[r]) = "getAll"
    /\ Call(r, "getAllToDos")
    /\ Respond(r, ArrayResponse(200, "getAll", FindAll(collection)))
    /\ UNCHANGED <<collection, nextOid, uniqueIndex, req, local, issued, history>>

\* getById: the list, the search and the answer.
GetByIdResponse(todos, id) ==
    IF ~HasTodo(todos, id)
    THEN NotFound("getById")
    ELSE JsonResponse(200, "getById", FindTodo(todos, id))

GetById(r) ==
    /\ pc[r] = "getAllToDos"
    /\ Handler(req[r]) = "getById"
    /\ Call(r, "getAllToDos")
    /\ Respond(r, GetByIdResponse(FindAll(collection), local[r].id))
    /\ UNCHANGED <<collection, nextOid, uniqueIndex, req, local, issued, history>>

\* create: the list, the new id and the new ToDo.
CreateGetAllToDos(r) ==
    /\ pc[r] = "getAllToDos"
    /\ Handler(req[r]) = "create"
    /\ Call(r, "getAllToDos")
    /\ local' = [local EXCEPT ![r].newToDo =
                    ToDo(Num(NewId(FindAll(collection))), req[r].body["title"],
                         CreateCompleted(req[r].body))]
    /\ pc' = [pc EXCEPT ![r] = "insertToDo"]
    /\ UNCHANGED <<collection, nextOid, uniqueIndex, req, sent, issued, history>>

\* create: res.status(201).json(newToDo).
Created(newToDo) == JsonResponse(201, "create", newToDo.own)

\* create: the insert, then the 201 or the error handler's answer.
CreateInsertToDo(r) ==
    /\ pc[r] = "insertToDo"
    /\ LET todo == local[r].newToDo
           result == InsertOne(collection, uniqueIndex, nextOid, ToDoGet(todo, "id"),
                               ToDoGet(todo, "title"), ToDoGet(todo, "completed"))
       IN  /\ Issue(r, "insertToDo", IF result.ok THEN NoError ELSE result.error)
           /\ collection' = result.coll
           /\ IF result.ok
              THEN /\ Respond(r, Created(todo))
                   /\ nextOid' = nextOid + 1
                   /\ lastSeq' = IF overlapped[r] THEN 0 ELSE ToDoGet(todo, "id").n
                   /\ gone' = {}
                   /\ afterGone' = [q \in Slots |-> FALSE]
                   /\ fresh' = fresh \cup {[id |-> ToDoGet(todo, "id").n,
                                            title |-> ToDoGet(todo, "title"),
                                            completed |-> ToDoGet(todo, "completed")]}
              ELSE /\ Respond(r, errorHandler(result.error))
                   /\ UNCHANGED <<nextOid, lastSeq, gone, afterGone, fresh>>
    /\ UNCHANGED <<uniqueIndex, req, local, issued, overlapped, retired, expect>>

\* An update whose 404 is sent without `return`: the method goes on to the
\* re-read and answers again.
UpdateUpdateToDoNoReturn(r) ==
    /\ pc[r] = "updateToDo"
    /\ Call(r, "updateToDo")
    /\ LET id == local[r].id
           result == UpdateOne(collection, id, local[r].updateData)
       IN  /\ collection' = result.coll
           /\ local' = [local EXCEPT ![r].matchedCount = result.matchedCount,
                                     ![r].modifiedCount = result.modifiedCount]
           /\ pc' = [pc EXCEPT ![r] = "getAllToDos"]
           /\ sent' = IF result.modifiedCount = 0
                      THEN [sent EXCEPT ![r] = Append(@, NotFound("update"))]
                      ELSE sent
           /\ fresh' = IF result.matchedCount = 0 THEN fresh
                       ELSE {e \in fresh : e.id # id.n}
           /\ expect' = IF result.matchedCount = 0 THEN expect
                        ELSE [q \in Slots |-> {e \in expect[q] : e.id # id.n}]
    /\ UNCHANGED <<nextOid, uniqueIndex, req, issued, overlapped, lastSeq, retired,
                   gone, afterGone>>

\* update: the patch, then the 404 or on to the re-read.
UpdateUpdateToDo(r) ==
    /\ pc[r] = "updateToDo"
    /\ Call(r, "updateToDo")
    /\ LET id == local[r].id
           result == UpdateOne(collection, id, local[r].updateData)
       IN  /\ collection' = result.coll
           /\ local' = [local EXCEPT ![r].matchedCount = result.matchedCount,
                                     ![r].modifiedCount = result.modifiedCount]
           /\ IF result.modifiedCount = 0
              THEN Respond(r, NotFound("update"))
              ELSE /\ pc' = [pc EXCEPT ![r] = "getAllToDos"]
                   /\ sent' = sent
           /\ fresh' = IF result.matchedCount = 0 THEN fresh
                       ELSE {e \in fresh : e.id # id.n}
           /\ expect' = IF result.matchedCount = 0 THEN expect
                        ELSE [q \in Slots |-> {e \in expect[q] : e.id # id.n}]
    /\ UNCHANGED <<nextOid, uniqueIndex, req, issued, overlapped, lastSeq, retired,
                   gone, afterGone>>

\* update with nothing to set: a server older than 5.0 rejects { $set: {} }
\* ("'$set' is empty"), a newer one takes it as a patch that changes nothing.
UpdateEmptySetRejected(r) ==
    /\ pc[r] = "updateToDo"
    /\ DOMAIN local[r].updateData = {}
    /\ Issue(r, "updateToDo", EmptySetError)
    /\ Respond(r, errorHandler(EmptySetError))
    /\ UNCHANGED <<collection, nextOid, uniqueIndex, req, local, issued, history>>

\* update: the re-read, then res.json(updatedTodo).
Updated(todos, id) == ResJson(200, "update", HasTodo(todos, id), FindTodo(todos, id))

UpdateGetAllToDos(r) ==
    /\ pc[r] = "getAllToDos"
    /\ Handler(req[r]) = "update"
    /\ Call(r, "getAllToDos")
    /\ Respond(r, Updated(FindAll(collection), local[r].id))
    /\ UNCHANGED <<collection, nextOid, uniqueIndex, req, local, issued, history>>

\* delete: the removal, then the 404 or the 204.
DeleteDeleteToDo(r) ==
    /\ pc[r] = "deleteToDo"
    /\ Call(r, "deleteToDo")
    /\ LET id == local[r].id
           result == DeleteOne(collection, id)
       IN  /\ collection' = result.coll
           /\ local' = [local EXCEPT ![r].deletedCount = result.deletedCount]
           /\ IF result.deletedCount = 0
              THEN /\ Respond(r, NotFound("delete"))
                   /\ UNCHANGED <<lastSeq, retired, gone, fresh, expect>>
              ELSE /\ Respond(r, EmptyResponse(204, "delete"))
                   /\ lastSeq' = 0
                   /\ retired' = retired \cup {id.n}
                   /\ gone' = gone \cup {id.n}
                   /\ fresh' = {e \in fresh : e.id # id.n}
                   /\ expect' = [q \in Slots |-> {e \in expect[q] : e.id # id.n}]
    /\ UNCHANGED <<nextOid, uniqueIndex, req, issued, overlapped, afterGone>>

(* ---------------------------- specification ----------------------------- *)

Next ==
    \E r \in Slots :
        \/ Receive(r)
        \/ ValidateId(r)
        \/ ValidateToDo(r)
        \/ Connect(r)
        \/ GetAll(r)
        \/ GetById(r)
        \/ CreateGetAllToDos(r)
        \/ CreateInsertToDo(r)
        \/ UpdateUpdateToDo(r)
        \/ UpdateEmptySetRejected(r)
        \/ UpdateGetAllToDos(r)
        \/ DeleteDeleteToDo(r)

Spec == Init /\ [][Next]_vars

\* The same service over a store that may fail: connect and every store
\* primitive either returns or throws.
FaultTexts == {<<"1">>}

FaultPosts == {Body(Str(<<"a">>), Undefined)}

FaultPuts == {Body(Undefined, Bool(TRUE)), Body(Undefined, Undefined)}

ReceiveFaults(r) == ReceiveFrom(r, MaxFaultRequests, FaultTexts, FaultPosts, FaultPuts)

NextFaults ==
    \E r \in Slots :
        \/ ReceiveFaults(r)
        \/ ValidateId(r)
        \/ ValidateToDo(r)
        \/ Connect(r)
        \/ ConnectFails(r)
        \/ StoreCallFails(r)
        \/ GetAll(r)
        \/ GetById(r)
        \/ CreateGetAllToDos(r)
        \/ CreateInsertToDo(r)
        \/ UpdateUpdateToDo(r)
        \/ UpdateEmptySetRejected(r)
        \/ UpdateGetAllToDos(r)
        \/ DeleteDeleteToDo(r)

SpecFaults == Init /\ [][NextFaults]_vars

\* The next step of the request in slot r: a middleware runs, or an awaited
\* call returns or throws and the method runs on to its next await.
Step(r) ==
    \/ ValidateId(r)
    \/ ValidateToDo(r)
    \/ Connect(r)
    \/ ConnectFails(r)
    \/ StoreCallFails(r)
    \/ GetAll(r)
    \/ GetById(r)
    \/ CreateGetAllToDos(r)
    \/ CreateInsertToDo(r)
    \/ UpdateUpdateToDo(r)
    \/ UpdateEmptySetRejected(r)
    \/ UpdateGetAllToDos(r)
    \/ DeleteDeleteToDo(r)

\* Every awaited call settles and the event loop runs every continuation
\* that is ready.
SpecLive == SpecFaults /\ \A r \in Slots : WF_vars(Step(r))

(* A second specification: one request at a time, with every kind of input  *)
(* a client can send (texts that parseInt rejects or cuts short, titles and *)
(* completed flags of every JavaScript type).                               *)

AnyTexts == {<<"1">>, <<"2", "x">>, <<"a", "b", "c">>}

\* Values of body.title (Undefined: the key is absent).
TitleVals ==
    {Undefined, Str(<<>>), Str(<<"a">>), Null, Num(0), Num(5), Bool(FALSE)}

\* Values of body.completed (Undefined: the key is absent).
CompletedVals == {Undefined, Bool(TRUE), Bool(FALSE), Null}

AnyBodies == {Body(title, completed) : title \in TitleVals, completed \in CompletedVals}

ReceiveAny(r) == ReceiveFrom(r, MaxSerialRequests, AnyTexts, AnyBodies, AnyBodies)

NextInputs ==
    \/ ReceiveAny(1)
    \/ ValidateId(1)
    \/ ValidateToDo(1)
    \/ Connect(1)
    \/ GetAll(1)
    \/ GetById(1)
    \/ CreateGetAllToDos(1)
    \/ CreateInsertToDo(1)
    \/ UpdateUpdateToDo(1)
    \/ UpdateEmptySetRejected(1)
    \/ UpdateGetAllToDos(1)
    \/ DeleteDeleteToDo(1)

SpecInputs == Init /\ [][NextInputs]_vars

(* ------------------------------- claims --------------------------------- *)

\* The request of slot r has been answered; Answer(r) is its (first) response.
Answered(r) == pc[r] = "done" /\ Len(sent[r]) > 0

Answer(r) == sent[r][1]

Ids(coll) == {coll[i]["id"].n : i \in 1..Len(coll)}

\* The step of slot r out of the store call `at` of the controller method.
Leaves(r, method, at) ==
    /\ pc[r] = at
    /\ Handler(req[r]) = method
    /\ pc'[r] # at

\* C1: in every reachable state no two stored tasks have the same id, under
\* every interleaving of create requests.
C1_UniqueIds ==
    \A i, j \in 1..Len(collection) :
        i # j => collection[i]["id"] # collection[j]["id"]

\* C2: a create that overlaps no other create computes 1 + the maximum id of
\* the collection it lists (1 when it lists none) and stores its task under
\* that id; over a run of such creates with no delete in between the ids
\* stored are strictly increasing, hence pairwise distinct.
C2_SequentialIds ==
    [][\A r \in Slots :
          ~overlapped[r] =>
            /\ Leaves(r, "create", "getAllToDos") =>
                  ToDoGet(local'[r].newToDo, "id") =
                      Num(IF collection = <<>> THEN 1 ELSE 1 + Max(Ids(collection)))
            /\ (Leaves(r, "create", "insertToDo") /\ sent'[r][1].status = 201) =>
                  /\ collection' = Append(collection, collection'[Len(collection')])
                  /\ collection'[Len(collection')]["id"] = ToDoGet(local[r].newToDo, "id")
                  /\ lastSeq # 0 => ToDoGet(local[r].newToDo, "id").n > lastSeq]_vars

\* C2 happens: the second of two creates that did not overlap is answered.
C2_Witness ==
    \E r \in Slots :
        /\ Answered(r) /\ Handler(req[r]) = "create" /\ Answer(r).status = 201
        /\ ~overlapped[r]
        /\ lastSeq = 2
        /\ Len(collection) = 2

\* C3: a create never assigns an id that was assigned to a task deleted
\* since.
C3_NoReuse ==
    [][\A r \in Slots :
          (Leaves(r, "create", "insertToDo") /\ sent'[r][1].status = 201) =>
              ToDoGet(local[r].newToDo, "id").n \notin retired]_vars

\* C3, amended: a create assigns the id of a deleted task only when that id is
\* larger than every id of the collection it lists (the deleted task held the
\* largest id); the id it stores is the one it computed from that list.
C3_ReuseOnlyAboveMax ==
    [][\A r \in Slots :
          /\ Leaves(r, "create", "getAllToDos") =>
                (ToDoGet(local'[r].newToDo, "id").n \in retired =>
                    \A k \in Ids(collection) : k < ToDoGet(local'[r].newToDo, "id").n)
          /\ (Leaves(r, "create", "insertToDo") /\ sent'[r][1].status = 201) =>
                Ids(collection') = Ids(collection) \cup {ToDoGet(local[r].newToDo, "id").n}
      ]_vars

\* C3 happens: with a deleted id below a stored one, a create was answered and
\* took a new id, not the deleted one.
C3_Witness ==
    \E r \in Slots :
        /\ Answered(r) /\ Handler(req[r]) = "create" /\ Answer(r).status = 201
        /\ \E k \in retired : \E j \in Ids(collection) :
              k < j /\ j < ToDoGet(local[r].newToDo, "id").n
        /\ ToDoGet(local[r].newToDo, "id").n \notin retired
        /\ ToDoGet(local[r].newToDo, "id").n \in Ids(collection)

\* C4: a create answered 201 carries the id, title and completed of the task
\* it stored.
C4_CreatedBody ==
    \A r \in Slots :
        (Answered(r) /\ Handler(req[r]) = "create" /\ Answer(r).status = 201) =>
            /\ Answer(r).kind = "object"
            /\ {"id", "title", "completed"} \subseteq DOMAIN Answer(r).obj
            /\ \A k \in {"id", "title", "completed"} :
                  Answer(r).obj[k] = ToDoGet(local[r].newToDo, k)

\* C5: the store step of an update changes at most one task, one whose id is
\* the requested id, and in it only fields the body supplies, which take the
\* body's values; its id, its other fields and all other tasks stay.
C5_PartialMerge ==
    [][\A r \in Slots :
          Leaves(r, "update", "updateToDo") =>
              LET supplied == DOMAIN req[r].body \cap {"title", "completed"}
                  changed == {i \in 1..Len(collection) : collection'[i] # collection[i]}
              IN  /\ Len(collection') = Len(collection)
                  /\ Cardinality(changed) <= 1
                  /\ \A i \in changed :
                        /\ collection[i]["id"] = ParseInt(req[r].params["id"])
                        /\ DOMAIN collection'[i] = DOMAIN collection[i]
                        /\ \A k \in DOMAIN collection[i] :
                              IF k \in supplied
                              THEN collection'[i][k] = req[r].body[k]
                              ELSE collection'[i][k] = collection[i][k]]_vars

\* C5 happens: an update that supplied completed alone was answered 200 with
\* two tasks in the collection, the patched one still under its title.
C5_Witness ==
    \E r \in Slots :
        /\ Answered(r) /\ Handler(req[r]) = "update" /\ Answer(r).status = 200
        /\ DOMAIN req[r].body = {"completed"}
        /\ Len(collection) = 2
        /\ \E i \in 1..2 :
              /\ collection[i]["id"] = local[r].id
              /\ collection[i]["title"] = Str(<<"a">>)
              /\ collection[i]["completed"] = Bool(TRUE)

\* C6: once a delete of an id has answered 204 and no create has stored a
\* task since, a get-by-id and a delete of that id answer 404.
C6_DeletedStaysGone ==
    \A r \in Slots :
        (Answered(r) /\ afterGone[r] /\ Handler(req[r]) \in {"getById", "delete"}) =>
            Answer(r).status = 404

\* C7: a get-by-id of i that arrives after a task was created under i, with
\* no update or delete of i since, answers 200 with that task's id, title and
\* completed.
C7_RoundTrip ==
    \A r \in Slots :
        (Answered(r) /\ Handler(req[r]) = "getById") =>
            \A e \in expect[r] :
                /\ Answer(r).status = 200
                /\ {"id", "title", "completed"} \subseteq DOMAIN Answer(r).obj
                /\ Answer(r).obj["id"] = Num(e.id)
                /\ Answer(r).obj["title"] = e.title
                /\ Answer(r).obj["completed"] = e.completed

\* C8: an update is answered 404 only if no task had the requested id when
\* the store applied the patch; an update of an existing task, also one that
\* sets fields to the values they have, is not answered 404.  (Stated for the
\* patches that set a field: a server older than 5.0 rejects an empty one.)
C8_NotFoundOnlyIfAbsent ==
    \A r \in Slots :
        (/\ Answered(r) /\ Handler(req[r]) = "update" /\ Answer(r).status = 404
         /\ DOMAIN local[r].updateData # {}) =>
            local[r].matchedCount = 0

\* C9: every 200 answer to an update carries the task of the requested id as
\* the collection holds it at the re-read, whatever ran between the update's
\* write and its re-read.
C9_UpdatedBody ==
    [][\A r \in Slots :
          (Leaves(r, "update", "getAllToDos") /\ sent'[r][1].status = 200) =>
              /\ HasTodo(collection, local[r].id)
              /\ sent'[r][1].kind = "object"
              /\ sent'[r][1].obj = JsonObject(FindTodo(collection, local[r].id))
              /\ sent'[r][1].obj["id"] = ParseInt(req[r].params["id"])]_vars

\* C10: a request the validation layer answers with 400 has issued no store
\* call (no connect, list, insert, update or delete), and issues none later.
C10_RejectedTouchesNoStore ==
    \A r \in Slots :
        (Len(sent[r]) > 0 /\ Answer(r).by \in Middlewares) =>
            /\ Answer(r).status = 400
            /\ calls[r] = <<>>
            /\ pc[r] = "done"

\* C10 happens: an update was rejected for its id and nothing was called.
C10_Witness ==
    \E r \in Slots :
        /\ Answered(r) /\ Answer(r).status = 400 /\ Answer(r).by = "validateId"
        /\ req[r].method = "PUT"
        /\ calls[r] = <<>>

\* C11: a create whose title is missing or empty is answered 400 and stores
\* no task, whatever its completed is (absent, true, false, of a wrong type).
C11_EmptyTitleRejected ==
    \A r \in Slots :
        (/\ pc[r] # "idle"
         /\ req[r].method = "POST"
         /\ Get(req[r].body, "title") \in {Undefined, Str(<<>>)}) =>
            /\ pc[r] \notin {"getAllToDos", "insertToDo"}
            /\ \A i \in 1..Len(calls[r]) : calls[r][i].name # "insertToDo"
            /\ pc[r] = "done" => Len(sent[r]) = 1 /\ Answer(r).status = 400

\* C11 happens: a create with an empty title and a completed of a wrong type
\* was answered, and the collection is as it was.
C11_Witness ==
    \E r \in Slots :
        /\ Answered(r) /\ req[r].method = "POST" /\ Answer(r).status = 400
        /\ Get(req[r].body, "title") = Str(<<>>)
        /\ Get(req[r].body, "completed") = Null
        /\ collection = <<>>

\* C12: every stored task has a title that is a non-empty text, after any
\* creates and updates that passed the validation layer.
C12_StoredTitleNonEmptyText ==
    \A i \in 1..Len(collection) :
        /\ TypeOf(collection[i]["title"]) = "string"
        /\ collection[i]["title"].s # <<>>

\* The create requests that have listed the collection, computed id and not
\* inserted yet, other than r.
RivalsOf(r, id) ==
    {q \in Slots \ {r} :
        /\ pc[q] = "insertToDo"
        /\ ToDoGet(local[q].newToDo, "id") = id}

\* C13: under a unique index on id, when two creates have both listed the
\* collection before either inserts and so hold the same new id, the first
\* insert succeeds and is answered 201 and leaves the other create still to
\* insert; an insert that finds its id stored fails, is answered 409 and
\* stores nothing; either way the collection then holds exactly one task of
\* that id.
C13_DuplicateInsertRejected ==
    [][\A r \in Slots :
          (uniqueIndex /\ Leaves(r, "create", "insertToDo")) =>
              LET id == ToDoGet(local[r].newToDo, "id")
                  stored == Matches(collection, id) # {}
              IN  /\ pc'[r] = "done" /\ Len(sent'[r]) = 1
                  /\ Cardinality(Matches(collection', id)) = 1
                  /\ (RivalsOf(r, id) # {} /\ ~stored) =>
                        /\ sent'[r][1] = Created(local[r].newToDo)
                        /\ \A q \in RivalsOf(r, id) : pc'[q] = "insertToDo"
                  /\ stored =>
                        /\ sent'[r][1].status = 409
                        /\ sent'[r][1].by = "errorHandler"
                        /\ collection' = collection
                  /\ ~stored => sent'[r][1].status = 201]_vars

\* C13 happens: two creates that held the same new id are both answered, one
\* with 201 and one with 409, and one task of that id is stored.
C13_Witness ==
    \E r, q \in Slots :
        /\ r # q /\ uniqueIndex
        /\ Answered(r) /\ Handler(req[r]) = "create"
        /\ Answered(q) /\ Handler(req[q]) = "create"
        /\ ToDoGet(local[r].newToDo, "id") = ToDoGet(local[q].newToDo, "id")
        /\ Answer(r).status = 201
        /\ Answer(q).status = 409
        /\ Cardinality(Matches(collection, ToDoGet(local[r].newToDo, "id"))) = 1

GenericError ==
    JsonResponse(500, "errorHandler", ErrorBody("Error interno del servidor"))

\* C14: in every operation, once connect or a store primitive has thrown an
\* error other than the duplicate key, the request is answered 500 with the
\* generic error message and that call is the last one it issues: no further
\* store call, no retry.
C14_FailureAnswered500 ==
    \A r \in Slots :
        \A i \in 1..Len(calls[r]) :
            (calls[r][i].error # NoError /\ calls[r][i].error.code # 11000) =>
                /\ i = Len(calls[r])
                /\ pc[r] = "done"
                /\ sent[r] = <<GenericError>>

\* C14 happens: an update whose patch was stored failed on its re-read, and
\* another request failed on connect.
C14_Witness ==
    \E r, q \in Slots :
        /\ Answered(r) /\ Handler(req[r]) = "update"
        /\ Len(calls[r]) = 3
        /\ calls[r][2] = [name |-> "updateToDo", error |-> NoError]
        /\ calls[r][3].name = "getAllToDos"
        /\ calls[r][3].error \in StoreErrors
        /\ Answer(r) = GenericError
        /\ Answered(q)
        /\ Len(calls[q]) = 1
        /\ calls[q][1].error \in StoreErrors
        /\ Answer(q) = GenericError

\* C15: every request to a /todos route receives exactly one response,
\* whichever of the validation middlewares, the controller and the error
\* handler sends it, in every interleaving with other requests: never two at
\* any time, none while it is in flight, and one once every call it awaits
\* has returned or failed.
C15_ExactlyOneResponse ==
    \A r \in Slots :
        /\ [](Len(sent[r]) <= 1)
        /\ [](InFlight(r) => sent[r] = <<>>)
        /\ [](pc[r] = "done" => Len(sent[r]) = 1)
        /\ (InFlight(r) ~> (pc[r] = "done" /\ Len(sent[r]) = 1))

\* C15 happens: two requests that were in flight together are answered once
\* each, one by the error handler and one by a validation middleware or the
\* controller.
C15_Witness ==
    \E r, q \in Slots :
        /\ r # q
        /\ pc[r] = "done" /\ Len(sent[r]) = 1 /\ sent[r][1].by = "errorHandler"
        /\ pc[q] = "done" /\ Len(sent[q]) = 1 /\ sent[q][1].by = "update"
        /\ sent[q][1].status = 404

\* C16: list and get-by-id never modify the collection, and a create,
\* update or delete answered 400 or 404 does not either: the only steps that
\* change the collection are the insert of a create answered 201, the patch
\* of an update that goes on to its re-read (and is then answered neither
\* 400 nor 404) and the removal of a delete answered 204.
C16_ReadsAndRejectsKeepCollection ==
    /\ [][\A r \in Slots :
             (pc'[r] # pc[r] /\ collection' # collection) =>
                 /\ pc[r] \in {"insertToDo", "updateToDo", "deleteToDo"}
                 /\ Handler(req[r]) \in {"create", "update", "delete"}
                 /\ IF pc'[r] = "done"
                    THEN /\ Len(sent'[r]) = 1
                         /\ sent'[r][1].status \in {201, 204}
                    ELSE /\ Handler(req[r]) = "update"
                         /\ pc'[r] = "getAllToDos"
                         /\ sent'[r] = <<>>]_vars
    /\ [](\A r \in Slots :
             (/\ Answered(r)
              /\ \E i \in 1..Len(calls[r]) : calls[r][i].name = "getAllToDos") =>
                 (Handler(req[r]) = "update" => Answer(r).status \notin {400, 404}))

\* C16 happens: an update or a delete aimed at an absent id was answered
\* 404 after its store call, and the task stored before it is still
\* there.
C16_Witness ==
    /\ Len(collection) = 1
    /\ \E r \in Slots :
          /\ Answered(r) /\ Handler(req[r]) \in {"update", "delete"}
          /\ Answer(r).status = 404
          /\ Len(calls[r]) = 2
          /\ Matches(collection, local[r].id) = {}

====
